---- MODULE Spec2Model ----
(***************************************************************************)
(* Model of semantic_world/views/factories.py: the view factories that     *)
(* carve axis-aligned regions and assemble kinematic trees.                *)
(*                                                                         *)
(* Lengths are integers on a lattice.  A region (random_events Event) is   *)
(* the set of the lattice cells it covers: along one axis the even index   *)
(* 2c is the point c and the odd index 2c+1 is the open interval (c, c+1), *)
(* so open and closed boundaries are told apart and the set operations of  *)
(* the product algebra are the set operations on cells.                    *)
(***************************************************************************)
EXTENDS Integers, Sequences, FiniteSets, TLC

VARIABLES pc, factory, args, world, error, next_id, event, ret

vars == <<pc, factory, args, world, error, next_id, event, ret>>

(* ---------------------------- bounds ----------------------------------- *)
MaxHalf == 3
MaxThickness == 3
MaxChildren == 2

(* ---------------------- program constants ------------------------------ *)
\* 0.1, the distance of a door handle from the free edge of the panel
HandleInset == 4
\* 0.05, the offset of a door handle across the panel
HandleOffset == 2

Directions == {"X", "Y", "Z", "NEGATIVE_X", "NEGATIVE_Y", "NEGATIVE_Z"}

Scale(x, y, z) == [x |-> x, y |-> y, z |-> z]

Half(n) == n \div 2

Min(S) == CHOOSE m \in S : \A n \in S : m <= n
Max(S) == CHOOSE m \in S : \A n \in S : m >= n

(* ------------------- random_events product algebra --------------------- *)
closed(lo, hi) == [lo |-> lo, hi |-> hi]

IntervalCells(iv) == (2 * iv.lo) .. (2 * iv.hi)

SimpleEvent(ix, iy, iz) == [x |-> ix, y |-> iy, z |-> iz]

as_composite_set(se) ==
    IntervalCells(se.x) \X IntervalCells(se.y) \X IntervalCells(se.z)

AxisIndex(a) == CASE a = "x" -> 1 [] a = "y" -> 2 [] a = "z" -> 3

bounding_box(E) ==
    [a \in {"x", "y", "z"} |->
        LET I == {c[AxisIndex(a)] : c \in E}
        IN  closed(Min(I) \div 2, (Max(I) + 1) \div 2)]

marginal_yz(E) == {<<c[2], c[3]>> : c \in E}

Translate(E, t) == {<<c[1] + 2 * t.x, c[2] + 2 * t.y, c[3] + 2 * t.z>> : c \in E}

\* a quarter turn about z maps (x, y) to (-y, x)
RotateXY(x, y, yaw) ==
    CASE yaw = 0 -> <<x, y>>
      [] yaw = 1 -> <<-y, x>>
      [] yaw = 2 -> <<-x, -y>>
      [] yaw = 3 -> <<y, -x>>

Rotate(E, yaw) ==
    {<<RotateXY(c[1], c[2], yaw)[1], RotateXY(c[1], c[2], yaw)[2], c[3]>> : c \in E}

Closure1(i) == IF i % 2 = 0 THEN {i} ELSE {i - 1, i, i + 1}

Closure(E) == UNION {Closure1(c[1]) \X Closure1(c[2]) \X Closure1(c[3]) : c \in E}

\* number of unit cubes of the lattice inside the region
Volume(E) == Cardinality({c \in E : c[1] % 2 = 1 /\ c[2] % 2 = 1 /\ c[3] % 2 = 1})

(* ------------------------------ helpers -------------------------------- *)
\* the division by two is left out
event_from_scale_not_halved(scale) ==
    SimpleEvent(closed(-scale.x, scale.x),
                closed(-scale.y, scale.y),
                closed(-scale.z, scale.z))

event_from_scale(scale) ==
    SimpleEvent(closed(-Half(scale.x), Half(scale.x)),
                closed(-Half(scale.y), Half(scale.y)),
                closed(-Half(scale.z), Half(scale.z)))

(* --------------------------- ContainerFactory -------------------------- *)
\* the cases of X and NEGATIVE_X are exchanged
extend_inner_event_in_direction_swapped(self, inner_event, inner_scale) ==
    CASE self.direction = "NEGATIVE_X" ->
            [inner_event EXCEPT !.x = closed(-Half(inner_scale.x), Half(self.scale.x))]
      [] self.direction = "Y" ->
            [inner_event EXCEPT !.y = closed(-Half(inner_scale.y), Half(self.scale.y))]
      [] self.direction = "Z" ->
            [inner_event EXCEPT !.z = closed(-Half(inner_scale.z), Half(self.scale.z))]
      [] self.direction = "X" ->
            [inner_event EXCEPT !.x = closed(-Half(self.scale.x), Half(inner_scale.x))]
      [] self.direction = "NEGATIVE_Y" ->
            [inner_event EXCEPT !.y = closed(-Half(self.scale.y), Half(inner_scale.y))]
      [] self.direction = "NEGATIVE_Z" ->
            [inner_event EXCEPT !.z = closed(-Half(self.scale.z), Half(inner_scale.z))]

extend_inner_event_in_direction(self, inner_event, inner_scale) ==
    CASE self.direction = "X" ->
            [inner_event EXCEPT !.x = closed(-Half(inner_scale.x), Half(self.scale.x))]
      [] self.direction = "Y" ->
            [inner_event EXCEPT !.y = closed(-Half(inner_scale.y), Half(self.scale.y))]
      [] self.direction = "Z" ->
            [inner_event EXCEPT !.z = closed(-Half(inner_scale.z), Half(self.scale.z))]
      [] self.direction = "NEGATIVE_X" ->
            [inner_event EXCEPT !.x = closed(-Half(self.scale.x), Half(inner_scale.x))]
      [] self.direction = "NEGATIVE_Y" ->
            [inner_event EXCEPT !.y = closed(-Half(self.scale.y), Half(inner_scale.y))]
      [] self.direction = "NEGATIVE_Z" ->
            [inner_event EXCEPT !.z = closed(-Half(self.scale.z), Half(inner_scale.z))]

\* the wall thickness is taken off twice
inner_scale_of_both_sides(self) ==
    Scale(self.scale.x - 2 * self.wall_thickness,
          self.scale.y - 2 * self.wall_thickness,
          self.scale.z - 2 * self.wall_thickness)

inner_scale_of(self) ==
    Scale(self.scale.x - self.wall_thickness,
          self.scale.y - self.wall_thickness,
          self.scale.z - self.wall_thickness)

create_container_event(self) ==
    LET outer_box == event_from_scale(self.scale)
        inner_scale == inner_scale_of(self)
        inner_box == extend_inner_event_in_direction(
                         self, event_from_scale(inner_scale), inner_scale)
    IN  as_composite_set(outer_box) \ as_composite_set(inner_box)

(* ----------------------------- HandleFactory --------------------------- *)
\* the outer box is centred on x like the boxes of the other factories
create_outer_box_event_centred(self) ==
    SimpleEvent(closed(-Half(self.scale.x), Half(self.scale.x)),
                closed(-Half(self.scale.y), Half(self.scale.y)),
                closed(-Half(self.scale.z), Half(self.scale.z)))

create_outer_box_event(self) ==
    SimpleEvent(closed(0, self.scale.x),
                closed(-Half(self.scale.y), Half(self.scale.y)),
                closed(-Half(self.scale.z), Half(self.scale.z)))

create_inner_box_event(self) ==
    SimpleEvent(closed(0, self.scale.x - self.thickness),
                closed(-Half(self.scale.y) + self.thickness,
                       Half(self.scale.y) - self.thickness),
                closed(-self.scale.z, self.scale.z))

create_handle_event(self) ==
    as_composite_set(create_outer_box_event(self))
        \ as_composite_set(create_inner_box_event(self))

(* --------------------- transforms (spatial_types) ---------------------- *)
\* translation on the lattice, yaw in quarter turns
from_xyz_rpy(x, y, z, yaw) == [x |-> x, y |-> y, z |-> z, yaw |-> yaw]

from_point_rotation_matrix(x, y, z) == from_xyz_rpy(x, y, z, 0)

Identity == from_xyz_rpy(0, 0, 0, 0)

sign(v) == IF v > 0 THEN 1 ELSE IF v < 0 THEN -1 ELSE 0

(* ------------------------- the kinematic graph ------------------------- *)
World == [bodies |-> <<>>, connections |-> <<>>, dofs |-> <<>>, views |-> <<>>,
          name |-> <<>>]

Body(id, name) == [id |-> id, name |-> name, kind |-> "Body", collision |-> {}]

Region(id, name, points) ==
    [id |-> id, name |-> name, kind |-> "Region", collision |-> {}, area |-> points]

FixedConnection(parent, child, origin) ==
    [kind |-> "Fixed", parent |-> parent, child |-> child, origin |-> origin,
     axis |-> "none", dof |-> <<>>]

RevoluteConnection(parent, child, origin, axis, dof) ==
    [kind |-> "Revolute", parent |-> parent, child |-> child, origin |-> origin,
     axis |-> axis, dof |-> dof]

PrismaticConnection(parent, child, origin, axis, dof) ==
    [kind |-> "Prismatic", parent |-> parent, child |-> child, origin |-> origin,
     axis |-> axis, dof |-> dof]

DegreeOfFreedom(id, name, lower, upper, unit) ==
    [id |-> id, name |-> name, lower |-> lower, upper |-> upper, unit |-> unit]

Range(s) == {s[i] : i \in DOMAIN s}

BodyIds(w) == {b.id : b \in Range(w.bodies)}

BodyOf(w, id) == CHOOSE b \in Range(w.bodies) : b.id = id

\* Body.parent_connection: <<>> when the body has none
parent_connection(w, id) ==
    LET S == {i \in DOMAIN w.connections : w.connections[i].child = id}
    IN  IF S = {} THEN <<>> ELSE <<w.connections[Min(S)]>>

Roots(w) == {i \in DOMAIN w.bodies : parent_connection(w, w.bodies[i].id) = <<>>}

\* World.root, the id of the entity without a parent connection
root(w) == w.bodies[Min(Roots(w))].id

add_kinematic_structure_entity(w, body) ==
    [w EXCEPT !.bodies = Append(@, body)]

add_view(w, view) == [w EXCEPT !.views = Append(@, view)]

add_degree_of_freedom(w, dof) ==
    IF dof \in Range(w.dofs) THEN w ELSE [w EXCEPT !.dofs = Append(@, dof)]

add_connection(w, connection, child) ==
    [w EXCEPT !.bodies = IF child.id \in BodyIds(w) THEN @ ELSE Append(@, child),
              !.connections = Append(@, connection)]

get_views_by_type(w, type) == SelectSeq(w.views, LAMBDA v : v.type = type)

\* graft other under connection: everything of other is carried over
merge_world(w, other, connection) ==
    [w EXCEPT !.bodies = @ \o other.bodies,
              !.connections = (@ \o other.connections) \o <<connection>>,
              !.dofs = (@ \o SelectSeq(other.dofs, LAMBDA d : d \notin Range(w.dofs)))
                       \o SelectSeq(connection.dof, LAMBDA d :
                              d \notin Range(w.dofs) \cup Range(other.dofs)),
              !.views = @ \o other.views]

\* BoundingBoxCollection.from_event(body, event).as_shapes(): every simple
\* event becomes a box given by its corner coordinates
as_shapes(E) == Closure(E)

set_collision(w, id, shapes) ==
    [w EXCEPT !.bodies = [i \in DOMAIN @ |->
        IF @[i].id = id THEN [@[i] EXCEPT !.collision = shapes] ELSE @[i]]]

\* pose of a body in the frame of an ancestor, all joints at position zero
RECURSIVE frame_T(_, _, _)
frame_T(w, ancestor, id) ==
    IF id = ancestor \/ parent_connection(w, id) = <<>> THEN Identity
    ELSE LET c == parent_connection(w, id)[1]
             q == frame_T(w, ancestor, c.parent)
             o == RotateXY(c.origin.x, c.origin.y, q.yaw)
         IN  from_xyz_rpy(q.x + o[1], q.y + o[2], q.z + c.origin.z,
                          (q.yaw + c.origin.yaw) % 4)

\* body.collision.as_bounding_box_collection_at_origin(frame).event
collision_in_frame(w, ancestor, id) ==
    LET t == frame_T(w, ancestor, id)
    IN  Translate(Rotate(BodyOf(w, id).collision, t.yaw), t)

\* F applied to the value of v, v being evaluated once
With(v, F(_)) == CHOOSE r \in {F(x) : x \in {v}} : TRUE

Ok(w, n) == [world |-> w, next |-> n, err |-> "none", event |-> {}, ret |-> <<>>]

Raise(w, n, e) == [world |-> w, next |-> n, err |-> e, event |-> {}, ret |-> <<>>]

(* ------------------------ ContainerFactory._create --------------------- *)
ContainerFactory_create(self, n) ==
    With(create_container_event(self), LAMBDA container_event :
        LET container_body == Body(n, self.name)
            collision_shapes == as_shapes(container_event)
            container_view == [type |-> "Container", name |-> self.name, body |-> n]
            w1 == add_kinematic_structure_entity(
                      World, [container_body EXCEPT !.collision = collision_shapes])
            w2 == add_view(w1, container_view)
        IN  [Ok([w2 EXCEPT !.name = self.name], n + 1) EXCEPT !.event = container_event])

(* -------------------------- HandleFactory._create ---------------------- *)
HandleFactory_create(self, n) ==
    With(create_handle_event(self), LAMBDA handle_event :
        LET handle == Body(n, self.name)
            collision == as_shapes(handle_event)
            handle_view == [type |-> "Handle", name |-> self.name, body |-> n]
            w1 == add_kinematic_structure_entity(
                      World, [handle EXCEPT !.collision = collision])
            w2 == add_view(w1, handle_view)
        IN  [Ok([w2 EXCEPT !.name = self.name], n + 1) EXCEPT !.event = handle_event])

(* ------------------------------ DoorFactory ---------------------------- *)
NotImplemented(self) == self.handle_direction \in {"Z", "NEGATIVE_Z"}

create_door_event(self) ==
    LET x_interval == closed(-Half(self.scale.x), Half(self.scale.x))
        y_interval == closed(-Half(self.scale.y), Half(self.scale.y))
        z_interval == closed(-Half(self.scale.z), Half(self.scale.z))
    IN  CASE self.handle_direction = "X" ->
                SimpleEvent(closed(0, self.scale.x), y_interval, z_interval)
          [] self.handle_direction = "Y" ->
                SimpleEvent(x_interval, closed(0, self.scale.y), z_interval)
          [] self.handle_direction = "NEGATIVE_X" ->
                SimpleEvent(closed(-self.scale.x, 0), y_interval, z_interval)
          [] self.handle_direction = "NEGATIVE_Y" ->
                SimpleEvent(x_interval, closed(-self.scale.y, 0), z_interval)

create_door_T_handle(self) ==
    CASE self.handle_direction = "X" ->
            from_xyz_rpy(self.scale.x - HandleInset, HandleOffset, 0, 1)
      [] self.handle_direction = "Y" ->
            from_xyz_rpy(HandleOffset, self.scale.y - HandleInset, 0, 0)
      [] self.handle_direction = "NEGATIVE_X" ->
            from_xyz_rpy(-(self.scale.x - HandleInset), HandleOffset, 0, 1)
      [] self.handle_direction = "NEGATIVE_Y" ->
            from_xyz_rpy(HandleOffset, -(self.scale.y - HandleInset), 0, 0)

\* the body is constructed and added before the door event is made
DoorFactory_create_body_first(self, n) ==
    LET body0 == Body(n, self.name)
        w0 == add_kinematic_structure_entity(World, body0)
    IN  IF NotImplemented(self)
        THEN Raise(w0, n + 1, "NotImplementedError")
        ELSE
        With(as_composite_set(create_door_event(self)), LAMBDA door_event :
        With(HandleFactory_create(self.handle_factory, n + 1), LAMBDA h :
            LET w1 == set_collision(w0, n, as_shapes(door_event))
                handle_view == get_views_by_type(h.world, "Handle")[1]
                connection_door_T_handle ==
                    FixedConnection(n, root(h.world), create_door_T_handle(self))
                w2 == merge_world(w1, h.world, connection_door_T_handle)
                w3 == add_view(w2, [type |-> "Door", name |-> self.name,
                                    handle |-> handle_view, body |-> n])
            IN  [Ok([w3 EXCEPT !.name = self.name], h.next) EXCEPT
                    !.event = door_event]))

DoorFactory_create(self, n) ==
    IF NotImplemented(self)
    THEN \* create_door_event raises before the body is constructed
         Raise(World, n, "NotImplementedError")
    ELSE
    With(as_composite_set(create_door_event(self)), LAMBDA door_event :
    With(HandleFactory_create(self.handle_factory, n + 1), LAMBDA h :
    With(add_kinematic_structure_entity(
             World, [Body(n, self.name) EXCEPT !.collision = as_shapes(door_event)]),
         LAMBDA w1 :
        LET handle_view == get_views_by_type(h.world, "Handle")[1]
            door_T_handle == create_door_T_handle(self)
            connection_door_T_handle ==
                FixedConnection(root(w1), root(h.world), door_T_handle)
            w2 == merge_world(w1, h.world, connection_door_T_handle)
            w3 == add_view(w2, [type |-> "Door", name |-> self.name,
                                handle |-> handle_view, body |-> n])
        IN  [Ok([w3 EXCEPT !.name = self.name], h.next) EXCEPT !.event = door_event])))

(* ---------------------- calculate_door_pivot_point --------------------- *)
\* the pivot is moved towards the handle instead of away from it
calculate_door_pivot_point_towards_handle(w, door_view, door_transform, scale) ==
    LET pconn == parent_connection(w, door_view.handle.body)
    IN  IF pconn = <<>> THEN [err |-> "ValueError", value |-> Identity]
        ELSE LET handle_position == pconn[1].origin
                 offset == sign(handle_position.y) * Half(scale.y)
             IN  [err |-> "none",
                  value |-> from_point_rotation_matrix(door_transform.x,
                                                       door_transform.y + offset,
                                                       door_transform.z)]

\* w is the world the handle body of the door view lives in
calculate_door_pivot_point(w, door_view, door_transform, scale) ==
    LET pconn == parent_connection(w, door_view.handle.body)
    IN  IF pconn = <<>> THEN [err |-> "ValueError", value |-> Identity]
        ELSE LET handle_position == pconn[1].origin
                 offset == -sign(handle_position.y) * Half(scale.y)
             IN  [err |-> "none",
                  value |-> from_point_rotation_matrix(door_transform.x,
                                                       door_transform.y + offset,
                                                       door_transform.z)]

(* --------------------------- add_door_to_world ------------------------- *)
DoorLimits(door_factory) ==
    IF door_factory.handle_direction \in {"NEGATIVE_X", "NEGATIVE_Y"}
    THEN [lower |-> 0, upper |-> 1]
    ELSE [lower |-> -1, upper |-> 0]

\* the revolute connection takes the handle body for its child
add_door_to_world_handle_child(door_factory, parent_T_door, parent_world, n) ==
    With(DoorFactory_create(door_factory, n), LAMBDA d :
        IF d.err # "none" THEN Raise(parent_world, d.next, d.err)
        ELSE
        LET door_world == d.world
            door_view == get_views_by_type(door_world, "Door")[1]
            door_body == door_view.body
            limits == DoorLimits(door_factory)
            \* limits are in quarter turns (pi / 2)
            dof == DegreeOfFreedom(d.next, door_factory.name \o <<"connection">>,
                                   limits.lower, limits.upper, "pi/2")
        IN  With(add_degree_of_freedom(parent_world, dof), LAMBDA w1 :
            With(calculate_door_pivot_point(
                     door_world, door_view, parent_T_door, door_factory.scale),
                 LAMBDA pivot_point :
                IF pivot_point.err # "none" THEN Raise(w1, d.next + 1, pivot_point.err)
                ELSE
                With(merge_world(w1, door_world,
                                 RevoluteConnection(root(parent_world), door_view.handle.body,
                                                    pivot_point.value, "Z", <<dof>>)),
                     LAMBDA w2 :
                    [Ok(w2, d.next + 1) EXCEPT
                        !.ret = <<get_views_by_type(w2, "Door")[1]>>]))))

add_door_to_world(door_factory, parent_T_door, parent_world, n) ==
    With(DoorFactory_create(door_factory, n), LAMBDA d :
        IF d.err # "none" THEN Raise(parent_world, d.next, d.err)
        ELSE
        LET door_world == d.world
            door_view == get_views_by_type(door_world, "Door")[1]
            door_body == door_view.body
            limits == DoorLimits(door_factory)
            \* limits are in quarter turns (pi / 2)
            dof == DegreeOfFreedom(d.next, door_factory.name \o <<"connection">>,
                                   limits.lower, limits.upper, "pi/2")
        IN  With(add_degree_of_freedom(parent_world, dof), LAMBDA w1 :
            With(calculate_door_pivot_point(
                     door_world, door_view, parent_T_door, door_factory.scale),
                 LAMBDA pivot_point :
                IF pivot_point.err # "none" THEN Raise(w1, d.next + 1, pivot_point.err)
                ELSE
                With(merge_world(w1, door_world,
                                 RevoluteConnection(root(parent_world), door_body,
                                                    pivot_point.value, "Z", <<dof>>)),
                     LAMBDA w2 :
                    [Ok(w2, d.next + 1) EXCEPT
                        !.ret = <<get_views_by_type(w2, "Door")[1]>>]))))

(* ---------------------------- DoubleDoorFactory ------------------------ *)
one_door_scale(self) == Scale(self.scale.x, Half(self.scale.y), self.scale.z)

create_door_factories(self) ==
    LET handle_directions == <<"Y", "NEGATIVE_Y">>
        suffix == <<"0", "1">>
    IN  [index \in 1..2 |->
            [kind |-> "Door",
             name |-> Append(self.name, suffix[index]),
             scale |-> one_door_scale(self),
             handle_factory |->
                 [kind |-> "Handle",
                  name |-> self.name \o <<suffix[index], "handle">>,
                  scale |-> self.handle_factory.scale,
                  thickness |-> self.handle_factory.thickness],
             handle_direction |-> handle_directions[index]]]

\* state of the loop of add_doors_to_world after the first i door factories
RECURSIVE add_doors_loop(_, _, _, _, _)
add_doors_loop(self, parent_world, door_factories, i, n) ==
    IF i = 0
    THEN [Ok(parent_world, n) EXCEPT !.ret = [left_door |-> <<>>, right_door |-> <<>>]]
    ELSE
    With(add_doors_loop(self, parent_world, door_factories, i - 1, n), LAMBDA prev :
        IF prev.err # "none" THEN prev
        ELSE
        LET door_factory == door_factories[i]
            y_direction == IF door_factory.handle_direction = "Y"
                           THEN -Half(one_door_scale(self).y)
                           ELSE Half(one_door_scale(self).y)
            parent_T_door == from_point_rotation_matrix(
                                 Half(one_door_scale(self).x), y_direction,
                                 Half(one_door_scale(self).z))
        IN  With(add_door_to_world(door_factory, parent_T_door, prev.world, prev.next),
                 LAMBDA a :
                IF a.err # "none" THEN [a EXCEPT !.ret = prev.ret]
                ELSE [a EXCEPT !.ret =
                         IF door_factory.handle_direction = "Y"
                         THEN [prev.ret EXCEPT !.right_door = a.ret]
                         ELSE [prev.ret EXCEPT !.left_door = a.ret]]))

add_doors_to_world(self, parent_world, door_factories, n) ==
    With(add_doors_loop(self, parent_world, door_factories, Len(door_factories), n),
         LAMBDA r :
        IF r.err = "none" /\ (r.ret.left_door = <<>> \/ r.ret.right_door = <<>>)
        THEN [r EXCEPT !.err = "AssertionError"]
        ELSE r)

DoubleDoorFactory_create(self, n) ==
    LET door_factories == create_door_factories(self)
        double_door_body == Body(n, self.name)
        w1 == add_kinematic_structure_entity(World, double_door_body)
    IN  IF Len(door_factories) # 2 THEN Raise(w1, n + 1, "AssertionError")
        ELSE With(add_doors_to_world(self, w1, door_factories, n + 1), LAMBDA a :
                 IF a.err # "none" THEN a
                 ELSE LET double_door_view ==
                              [type |-> "DoubleDoor", body |-> n,
                               left_door |-> a.ret.left_door[1],
                               right_door |-> a.ret.right_door[1]]
                          w2 == add_view(a.world, double_door_view)
                      IN  Ok([w2 EXCEPT !.name = self.name], a.next))

(* ------------------------------ DrawerFactory -------------------------- *)
DrawerFactory_create(self, n) ==
    With(ContainerFactory_create(self.container_factory, n), LAMBDA c :
    With(HandleFactory_create(self.handle_factory, c.next), LAMBDA h :
        LET container_world == c.world
            container_view == get_views_by_type(container_world, "Container")[1]
            handle_view == get_views_by_type(h.world, "Handle")[1]
            drawer_T_handle ==
                from_xyz_rpy(Half(self.container_factory.scale.x), 0, 0, 0)
            connection_drawer_T_handle ==
                FixedConnection(root(container_world), root(h.world), drawer_T_handle)
            w1 == merge_world(container_world, h.world, connection_drawer_T_handle)
            drawer_view == [type |-> "Drawer", name |-> self.name,
                            container |-> container_view, handle |-> handle_view]
            w2 == add_view(w1, drawer_view)
        IN  [Ok([w2 EXCEPT !.name = self.name], h.next) EXCEPT !.event = c.event]))

(* ------------------------------ DresserFactory ------------------------- *)
MinOf(a, b) == IF a < b THEN a ELSE b

\* limits in quarters of a lattice unit: 0.75 * scale.x is 3 * scale.x quarters
create_drawer_upper_lower_limits_of_handle(drawer_factory) ==
    [lower |-> 0, upper |-> 3 * drawer_factory.handle_factory.scale.x]

create_drawer_upper_lower_limits(drawer_factory) ==
    [lower |-> 0, upper |-> 3 * drawer_factory.container_factory.scale.x]

\* state of the door loop of make_dresser_world after the first i pairs
RECURSIVE dresser_doors_loop(_, _, _, _)
dresser_doors_loop(self, dresser_world, i, n) ==
    IF i = 0 THEN Ok(dresser_world, n)
    ELSE With(dresser_doors_loop(self, dresser_world, i - 1, n), LAMBDA prev :
             IF prev.err # "none" THEN prev
             ELSE add_door_to_world(self.door_factories[i], self.door_transforms[i],
                                    prev.world, prev.next))

\* state of the loop of add_drawers_to_world after the first i pairs
RECURSIVE add_drawers_loop(_, _, _, _)
add_drawers_loop(self, parent_world, i, n) ==
    IF i = 0 THEN Ok(parent_world, n)
    ELSE
    With(add_drawers_loop(self, parent_world, i - 1, n), LAMBDA prev :
    With(DrawerFactory_create(self.drawers_factories[i], prev.next), LAMBDA d :
        LET drawer_factory == self.drawers_factories[i]
            transform == self.drawer_transforms[i]
            drawer_view == get_views_by_type(d.world, "Drawer")[1]
            drawer_body == drawer_view.container.body
            limits == create_drawer_upper_lower_limits(drawer_factory)
            dof == DegreeOfFreedom(
                       d.next,
                       BodyOf(d.world, drawer_body).name \o <<"connection">>,
                       limits.lower, limits.upper, "lattice/4")
            connection == PrismaticConnection(root(prev.world), drawer_body,
                                              transform, "X", <<dof>>)
        IN  Ok(merge_world(prev.world, d.world, connection), d.next + 1)))

add_drawers_to_world(self, parent_world, n) ==
    add_drawers_loop(self, parent_world,
                     MinOf(Len(self.drawers_factories), Len(self.drawer_transforms)), n)

make_dresser_world(self, n) ==
    With(ContainerFactory_create(self.container_factory, n), LAMBDA c :
    With(dresser_doors_loop(
             self, c.world,
             MinOf(Len(self.door_factories), Len(self.door_transforms)), c.next),
         LAMBDA doors :
        IF doors.err # "none" THEN doors
        ELSE With(add_drawers_to_world(self, doors.world, doors.next), LAMBDA drawers :
                 LET container_view == get_views_by_type(c.world, "Container")[1]
                     dresser_world == drawers.world
                     dresser_view ==
                         [type |-> "Dresser", name |-> self.name,
                          container |-> container_view,
                          drawers |-> get_views_by_type(dresser_world, "Drawer"),
                          doors |-> get_views_by_type(dresser_world, "Door")]
                     w1 == add_view(dresser_world, dresser_view)
                 IN  Ok([w1 EXCEPT !.name = self.name], drawers.next))))

\* the footprints of the children are left in the footprint of the container
subtract_bodies_from_container_footprint_kept(w, container_event) ==
    marginal_yz(container_event)

subtract_bodies_from_container_footprint(w, container_event) ==
    LET dresser_body == root(w)
    IN  marginal_yz(container_event)
            \ UNION {marginal_yz(collision_in_frame(w, dresser_body, b.id)) :
                        b \in {e \in Range(w.bodies) :
                                  e.kind = "Body" /\ e.id # dresser_body}}

fill_container_body(container_footprint, container_event) ==
    With(IntervalCells(bounding_box(container_event).x), LAMBDA depth_interval :
        container_event \cup
            {<<i, f[1], f[2]>> : i \in depth_interval, f \in container_footprint})

make_interior(self, w) ==
    With(collision_in_frame(w, root(w), root(w)), LAMBDA container_event :
    With(fill_container_body(
             subtract_bodies_from_container_footprint(w, container_event),
             container_event),
         LAMBDA filled :
        [world |-> set_collision(w, root(w), as_shapes(filled)),
         event |-> filled]))

\* the assertion is checked after the dresser world has been assembled
DresserFactory_create_assert_last(self, n) ==
    With(make_dresser_world(self, n), LAMBDA d :
        IF d.err # "none" THEN d
        ELSE IF Len(self.drawers_factories) # Len(self.drawer_transforms)
        THEN Raise(d.world, d.next, "AssertionError")
        ELSE With(make_interior(self, d.world), LAMBDA m :
                 [Ok(m.world, d.next) EXCEPT !.event = m.event]))

DresserFactory_create(self, n) ==
    IF Len(self.drawers_factories) # Len(self.drawer_transforms)
    THEN Raise(World, n, "AssertionError")
    ELSE With(make_dresser_world(self, n), LAMBDA d :
             IF d.err # "none" THEN d
             ELSE With(make_interior(self, d.world), LAMBDA m :
                      [Ok(m.world, d.next) EXCEPT !.event = m.event]))

(* ------------------------------- RoomFactory --------------------------- *)
RoomFactory_create(self, n) ==
    LET room_body == Body(n, self.name)
        w1 == add_kinematic_structure_entity(World, room_body)
        region == Region(n + 1, Append(self.name, "region"), self.floor_polytope)
        connection == FixedConnection(room_body.id, region.id, Identity)
        w2 == add_connection(w1, connection, region)
        floor == [type |-> "Floor", name |-> Append(self.name, "floor"),
                  region |-> region.id]
        w3 == add_view(w2, floor)
        room_view == [type |-> "Room", name |-> self.name, floor |-> floor]
    IN  Ok(add_view(w3, room_view), n + 2)

(* ------------------------------- WallFactory --------------------------- *)
EntryWay_create(door_factory, n) ==
    IF door_factory.kind = "Door" THEN DoorFactory_create(door_factory, n)
    ELSE DoubleDoorFactory_create(door_factory, n)

create_wall_event(self) ==
    SimpleEvent(closed(-Half(self.scale.x), Half(self.scale.x)),
                closed(-Half(self.scale.y), Half(self.scale.y)),
                closed(0, self.scale.z))

\* the silhouette of a single door is cut at the transform the caller gave
get_door_transforms_unshifted(door_world, doors, door_factory, door_transform) ==
    [err |-> "none",
     value |-> from_point_rotation_matrix(door_transform.x, door_transform.y,
                                          IF door_factory.kind = "Door"
                                          THEN door_transform.z ELSE 0)]

get_door_transforms(door_world, doors, door_factory, door_transform) ==
    IF door_factory.kind = "Door"
    THEN calculate_door_pivot_point(door_world, doors[1], door_transform,
                                    door_factory.scale)
    ELSE [err |-> "none",
          value |-> from_point_rotation_matrix(door_transform.x, door_transform.y, 0)]

build_temp_world(door_world, door_transform, n) ==
    LET w1 == add_kinematic_structure_entity(World, Body(n, <<>>))
        connection == FixedConnection(n, root(door_world), door_transform)
    IN  Ok(merge_world(w1, door_world, connection), n + 1)

\* the silhouettes of the doors, unconstrained along x, taken out of the wall
cut_doors(wall_event, temp_world, doors) ==
    With(UNION {marginal_yz(collision_in_frame(temp_world, root(temp_world),
                                               doors[k].body)) :
                   k \in DOMAIN doors},
         LAMBDA silhouette :
        {c \in wall_event : <<c[2], c[3]>> \notin silhouette})

\* state of the loop of remove_doors_from_wall_event after the first i pairs
RECURSIVE remove_doors_loop(_, _, _, _)
remove_doors_loop(self, wall_event, i, n) ==
    IF i = 0 THEN [Ok(World, n) EXCEPT !.event = wall_event]
    ELSE
    With(remove_doors_loop(self, wall_event, i - 1, n), LAMBDA prev :
        IF prev.err # "none" THEN prev
        ELSE
        With(EntryWay_create(self.door_factories[i], prev.next), LAMBDA d :
            IF d.err # "none" THEN Raise(World, d.next, d.err)
            ELSE
            LET door_factory == self.door_factories[i]
                doors == get_views_by_type(d.world, "Door")
                door_transform == get_door_transforms(d.world, doors, door_factory,
                                                      self.door_transforms[i])
            IN  IF door_transform.err # "none"
                THEN Raise(World, d.next, door_transform.err)
                ELSE
                With(build_temp_world(d.world, door_transform.value, d.next), LAMBDA t :
                    IF door_factory.kind = "Door"
                       /\ door_factory.handle_direction \notin {"Y", "NEGATIVE_Y"}
                    THEN Raise(t.world, t.next, "AssertionError")
                    ELSE [Ok(t.world, t.next) EXCEPT
                             !.event = cut_doors(prev.event, t.world, doors)])))

remove_doors_from_wall_event(self, wall_event, n) ==
    remove_doors_loop(self, wall_event,
                      MinOf(Len(self.door_factories), Len(self.door_transforms)), n)

\* state of the loop of add_doors_and_double_doors_to_world after i pairs
RECURSIVE add_doors_and_double_doors_loop(_, _, _, _)
add_doors_and_double_doors_loop(self, wall_world, i, n) ==
    IF i = 0 THEN Ok(wall_world, n)
    ELSE
    With(add_doors_and_double_doors_loop(self, wall_world, i - 1, n), LAMBDA prev :
        LET door_factory == self.door_factories[i]
            transform == self.door_transforms[i]
        IN  IF prev.err # "none" THEN prev
            ELSE IF door_factory.kind = "Door"
            THEN add_door_to_world(door_factory, transform, prev.world, prev.next)
            ELSE With(DoubleDoorFactory_create(door_factory, prev.next), LAMBDA d :
                     LET placed == from_point_rotation_matrix(transform.x, transform.y, 0)
                         connection ==
                             FixedConnection(root(prev.world), root(d.world), placed)
                     IN  IF d.err # "none" THEN Raise(prev.world, d.next, d.err)
                         ELSE Ok(merge_world(prev.world, d.world, connection), d.next)))

add_doors_and_double_doors_to_world(self, wall_world, n) ==
    add_doors_and_double_doors_loop(
        self, wall_world,
        MinOf(Len(self.door_factories), Len(self.door_transforms)), n)

WallFactory_create(self, n) ==
    With(remove_doors_from_wall_event(
             self, as_composite_set(create_wall_event(self)), n + 1),
         LAMBDA cut :
        IF cut.err # "none" THEN Raise(World, cut.next, cut.err)
        ELSE
        LET wall_body == Body(n, self.name)
            wall_collision == as_shapes(cut.event)
            w1 == add_kinematic_structure_entity(
                      World, [wall_body EXCEPT !.collision = wall_collision])
        IN  With(add_doors_and_double_doors_to_world(self, w1, cut.next), LAMBDA a :
                IF a.err # "none" THEN a
                ELSE LET wall == [type |-> "Wall", name |-> self.name, body |-> n]
                     IN  [Ok(add_view(a.world, wall), a.next) EXCEPT
                             !.event = cut.event]))

(* ------------------------------ ViewFactory ---------------------------- *)
\* every call returns the objects the first call constructed
ViewFactory_create_cached(self, n) ==
    CASE self.kind = "Container" -> ContainerFactory_create(self, 1)
      [] self.kind = "Handle" -> HandleFactory_create(self, 1)
      [] self.kind = "Door" -> DoorFactory_create(self, 1)
      [] self.kind = "DoubleDoor" -> DoubleDoorFactory_create(self, 1)
      [] self.kind = "Drawer" -> DrawerFactory_create(self, 1)
      [] self.kind = "Dresser" -> DresserFactory_create(self, 1)
      [] self.kind = "Wall" -> WallFactory_create(self, 1)
      [] self.kind = "Room" -> RoomFactory_create(self, 1)

\* ViewFactory.create: a new World handed to the _create of the subclass
ViewFactory_create(self, n) ==
    CASE self.kind = "Container" -> ContainerFactory_create(self, n)
      [] self.kind = "Handle" -> HandleFactory_create(self, n)
      [] self.kind = "Door" -> DoorFactory_create(self, n)
      [] self.kind = "DoubleDoor" -> DoubleDoorFactory_create(self, n)
      [] self.kind = "Drawer" -> DrawerFactory_create(self, n)
      [] self.kind = "Dresser" -> DresserFactory_create(self, n)
      [] self.kind = "Wall" -> WallFactory_create(self, n)
      [] self.kind = "Room" -> RoomFactory_create(self, n)

(* ------------------------------- the inputs ---------------------------- *)
\* scales are even so that scale / 2 stays on the lattice
Evens == {2 * k : k \in 1..MaxHalf}

ContainerFactories ==
    [kind : {"Container"}, name : {<<"container">>},
     scale : [x : Evens, y : Evens, z : Evens],
     wall_thickness : {2 * k : k \in 1..(MaxHalf - 1)},
     direction : Directions]

HandleFactories ==
    [kind : {"Handle"}, name : {<<"handle">>},
     scale : [x : Evens, y : Evens, z : Evens],
     thickness : (-1)..MaxThickness]

DoorHandle(name, thickness) ==
    [kind |-> "Handle", name |-> Append(name, "handle"),
     scale |-> Scale(2, 2, 2), thickness |-> thickness]

DoorFactoryOf(name, scale, direction, thickness) ==
    [kind |-> "Door", name |-> name, scale |-> scale,
     handle_factory |-> DoorHandle(name, thickness), handle_direction |-> direction]

DoorFactories ==
    {DoorFactoryOf(<<"door">>, Scale(x, y, 2), d, t) :
        x \in Evens, y \in Evens, d \in Directions, t \in {1, 2}}

DoubleDoorFactoryOf(name, scale, thickness) ==
    [kind |-> "DoubleDoor", name |-> name, scale |-> scale,
     handle_factory |-> DoorHandle(name, thickness)]

\* the width is a multiple of 4 so that a quarter of it stays on the lattice
DoubleDoorFactories ==
    {DoubleDoorFactoryOf(<<"double_door">>, Scale(x, 4 * k, z), t) :
        x \in Evens, k \in 1..MaxHalf, z \in Evens, t \in 0..MaxThickness}

DrawerFactoryOf(name, scale, direction) ==
    [kind |-> "Drawer", name |-> name,
     handle_factory |-> DoorHandle(name, 1),
     container_factory |->
         [kind |-> "Container", name |-> Append(name, "container"),
          scale |-> scale, wall_thickness |-> 2, direction |-> direction]]

DrawerFactories ==
    {DrawerFactoryOf(<<"drawer">>, Scale(x, 4, 4), d) : x \in Evens, d \in Directions}

Transforms == {from_xyz_rpy(x, y, 1, 0) : x \in {0, 3}, y \in {-2, 1}}

Index == <<"1", "2", "3", "4">>

SeqsUpTo(S, n) == UNION {[1..k -> S] : k \in 0..n}

\* a dresser with k drawer factories, l drawer transforms and the doors dd;
\* the drawers, of alternating depth, are stacked in the cavity, lowered by dz
DresserFactoryOf(k, l, dd, dz) ==
    [kind |-> "Dresser", name |-> <<"dresser">>,
     container_factory |->
         [kind |-> "Container", name |-> <<"dresser">>,
          scale |-> Scale(6, 6, 6), wall_thickness |-> 2, direction |-> "X"],
     drawers_factories |->
         [i \in 1..k |->
             DrawerFactoryOf(<<"drawer", Index[i]>>, Scale(2 + 2 * (i % 2), 4, 2), "X")],
     drawer_transforms |-> [i \in 1..l |-> from_xyz_rpy(0, 0, 2 * i - 3 - dz, 0)],
     door_factories |->
         [i \in DOMAIN dd |->
             DoorFactoryOf(<<"door", Index[i]>>, Scale(2, 4, 2), dd[i], 1)],
     door_transforms |-> [i \in 1..MaxChildren |-> from_xyz_rpy(4, 2 * i - 3, 0, 0)]]

DresserFactories ==
    {DresserFactoryOf(k, l, dd, 0) :
        k \in 0..MaxChildren, l \in 0..MaxChildren,
        dd \in SeqsUpTo({"Y", "NEGATIVE_X", "Z"}, MaxChildren)}

\* the same dressers with every drawer one unit lower
LoweredDresserFactories ==
    {DresserFactoryOf(k, k, dd, 1) :
        k \in 1..MaxChildren, dd \in SeqsUpTo({"Y", "NEGATIVE_X"}, MaxChildren)}

EntryWays ==
    {[kind |-> "Door", width |-> 4, direction |-> "Y"],
     [kind |-> "Door", width |-> 6, direction |-> "NEGATIVE_Y"],
     [kind |-> "Door", width |-> 4, direction |-> "X"],
     [kind |-> "Door", width |-> 4, direction |-> "Z"],
     [kind |-> "DoubleDoor", width |-> 8, direction |-> "Y"]}

EntryWayOf(e, name) ==
    IF e.kind = "Door" THEN DoorFactoryOf(name, Scale(2, e.width, 2), e.direction, 1)
    ELSE DoubleDoorFactoryOf(name, Scale(2, e.width, 2), 1)

WallFactories ==
    {[kind |-> "Wall", name |-> <<"wall">>, scale |-> Scale(x, 12, 4),
      door_factories |-> [i \in DOMAIN es |-> EntryWayOf(es[i], <<"entry", Index[i]>>)],
      door_transforms |-> [i \in 1..MaxChildren |-> from_xyz_rpy(0, 4 * i - 6, z, 0)]] :
        es \in SeqsUpTo(EntryWays, MaxChildren), x \in {2, 4}, z \in {0, 1}}

RoomFactories ==
    [kind : {"Room"}, name : {<<"room">>},
     floor_polytope : {<<"p1", "p2", "p3">>, <<"p1", "p2", "p3", "p4">>}]

(* ----------------------------- the state machine ----------------------- *)
NoCall == [op |-> "none"]

Init ==
    /\ pc = "idle"
    /\ factory = [kind |-> "None"]
    /\ args = NoCall
    /\ world = World
    /\ error = "none"
    /\ next_id = 1
    /\ event = {}
    /\ ret = <<>>

\* ViewFactory.create: a new World, then the factory's _create
create(self, r) ==
    /\ factory' = self
    /\ pc' = IF r.err = "none" THEN "returned" ELSE "raised"
    /\ world' = r.world
    /\ error' = r.err
    /\ next_id' = r.next
    /\ event' = r.event
    /\ ret' = <<>>
    /\ UNCHANGED args

CreateContainerFrom(S) ==
    /\ pc = "idle"
    /\ \E f \in S : \E r \in {ContainerFactory_create(f, next_id)} : create(f, r)

CreateHandleFrom(S) ==
    /\ pc = "idle"
    /\ \E f \in S : \E r \in {HandleFactory_create(f, next_id)} : create(f, r)

CreateDoorFrom(S) ==
    /\ pc = "idle"
    /\ \E f \in S : \E r \in {DoorFactory_create(f, next_id)} : create(f, r)

CreateDoubleDoorFrom(S) ==
    /\ pc = "idle"
    /\ \E f \in S : \E r \in {DoubleDoorFactory_create(f, next_id)} : create(f, r)

CreateContainer == CreateContainerFrom(ContainerFactories)

CreateHandle == CreateHandleFrom(HandleFactories)

CreateDoor == CreateDoorFrom(DoorFactories)

CreateDoubleDoor == CreateDoubleDoorFrom(DoubleDoorFactories)

CreateDrawer ==
    /\ pc = "idle"
    /\ \E f \in DrawerFactories : \E r \in {DrawerFactory_create(f, next_id)} : create(f, r)

CreateDresserFrom(S) ==
    /\ pc = "idle"
    /\ \E f \in S : \E r \in {DresserFactory_create(f, next_id)} : create(f, r)

CreateDresser == CreateDresserFrom(DresserFactories)

CreateWall ==
    /\ pc = "idle"
    /\ \E f \in WallFactories : \E r \in {WallFactory_create(f, next_id)} : create(f, r)

CreateRoom ==
    /\ pc = "idle"
    /\ \E f \in RoomFactories : \E r \in {RoomFactory_create(f, next_id)} : create(f, r)

\* a caller attaches one door to the world a factory returned
AddDoorToWorld ==
    /\ pc = "returned"
    /\ args = NoCall
    /\ \E door_factory \in
              {f \in DoorFactories : f.scale.x = 2 /\ f.handle_factory.thickness = 1},
          parent_T_door \in Transforms :
          \E f \in {[door_factory EXCEPT
                        !.name = <<"added">>,
                        !.handle_factory.name = <<"added", "handle">>]} :
          \E r \in {add_door_to_world(f, parent_T_door, world, next_id)} :
              /\ args' = [op |-> "add_door_to_world", door_factory |-> f,
                          parent_T_door |-> parent_T_door]
              /\ pc' = IF r.err = "none" THEN "returned" ELSE "raised"
              /\ world' = r.world
              /\ error' = r.err
              /\ next_id' = r.next
              /\ ret' = r.ret
              /\ UNCHANGED <<factory, event>>

\* a caller asks for the pivot of a door of the world a factory returned
CalculateDoorPivotPoint ==
    /\ pc = "returned"
    /\ args = NoCall
    /\ \E k \in DOMAIN world.views, door_transform \in Transforms, y \in Evens :
          \E door_view \in {v \in {world.views[k]} : v.type = "Door"},
             scale \in {Scale(2, y, 2)} :
          \E r \in {calculate_door_pivot_point(world, door_view, door_transform, scale)} :
              /\ args' = [op |-> "calculate_door_pivot_point", door_view |-> door_view,
                          door_transform |-> door_transform, scale |-> scale]
              /\ pc' = IF r.err = "none" THEN "returned" ELSE "raised"
              /\ error' = r.err
              /\ ret' = IF r.err = "none" THEN <<r.value>> ELSE <<>>
              /\ UNCHANGED <<factory, world, next_id, event>>

\* a caller calls create() a second time on the factory that has returned;
\* the first world stays with the caller, the second one is kept in ret
CreateAgain ==
    /\ pc = "returned"
    /\ args = NoCall
    /\ \E r \in {ViewFactory_create(factory, next_id)} :
          /\ args' = [op |-> "create", self |-> factory]
          /\ pc' = IF r.err = "none" THEN "returned" ELSE "raised"
          /\ error' = r.err
          /\ next_id' = r.next
          /\ ret' = <<r.world>>
          /\ UNCHANGED <<factory, world, event>>

\* every factory once, on a few parameters each
Next ==
    \/ CreateContainerFrom({f \in ContainerFactories : f.scale = Scale(4, 4, 4)})
    \/ CreateHandleFrom({f \in HandleFactories : f.scale = Scale(2, 2, 2)})
    \/ CreateDoorFrom({f \in DoorFactories : f.scale.x = 2})
    \/ CreateDoubleDoorFrom({f \in DoubleDoorFactories : f.scale.x = 2 /\ f.scale.z = 2})
    \/ CreateDrawer
    \/ CreateDresser
    \/ CreateWall
    \/ CreateRoom

Spec == Init /\ [][Next]_vars

NextContainer == CreateContainer

SpecContainer == Init /\ [][NextContainer]_vars

NextHandle == CreateHandle

SpecHandle == Init /\ [][NextHandle]_vars

NextDoor == CreateDoor

SpecDoor == Init /\ [][NextDoor]_vars

NextDoubleDoor == CreateDoubleDoor

SpecDoubleDoor == Init /\ [][NextDoubleDoor]_vars

NextAttach ==
    \/ CreateRoom
    \/ CreateDoorFrom({f \in DoorFactories : f.scale.x = 2 /\ f.handle_factory.thickness = 1})
    \/ AddDoorToWorld
    \/ CalculateDoorPivotPoint

SpecAttach == Init /\ [][NextAttach]_vars

NextDresser == CreateDresserFrom(DresserFactories \cup LoweredDresserFactories)

SpecDresser == Init /\ [][NextDresser]_vars

NextTwice ==
    \/ CreateContainerFrom({f \in ContainerFactories : f.scale = Scale(4, 4, 4)})
    \/ CreateHandleFrom({f \in HandleFactories : f.scale = Scale(2, 2, 2)})
    \/ CreateDoorFrom({f \in DoorFactories : f.scale.x = 2})
    \/ CreateDoubleDoorFrom({f \in DoubleDoorFactories : f.scale.x = 2 /\ f.scale.z = 2})
    \/ CreateDrawer
    \/ CreateDresser
    \/ CreateWall
    \/ CreateRoom
    \/ CreateAgain

SpecTwice == Init /\ [][NextTwice]_vars

NextWall == CreateWall

SpecWall == Init /\ [][NextWall]_vars

(* ======================= the kinematic tree (C1) ======================= *)
ParentConnections(w, id) == {i \in DOMAIN w.connections : w.connections[i].child = id}

RECURSIVE ReachesRoot(_, _, _)
ReachesRoot(w, id, fuel) ==
    IF ParentConnections(w, id) = {} THEN TRUE
    ELSE IF fuel = 0 THEN FALSE
    ELSE ReachesRoot(w, w.connections[Min(ParentConnections(w, id))].parent, fuel - 1)

IsTree(w) ==
    /\ Cardinality(BodyIds(w)) = Len(w.bodies)
    /\ Cardinality({id \in BodyIds(w) : ParentConnections(w, id) = {}}) = 1
    /\ \A id \in BodyIds(w) : Cardinality(ParentConnections(w, id)) <= 1
    /\ \A i \in DOMAIN w.connections :
          w.connections[i].parent \in BodyIds(w) /\ w.connections[i].child \in BodyIds(w)
    /\ \A id \in BodyIds(w) : ReachesRoot(w, id, Len(w.bodies))
    /\ Len(w.connections) = Len(w.bodies) - 1

Pairs(f) == 1..MinOf(Len(f.door_factories), Len(f.door_transforms))

ExpectedBodies(f) ==
    CASE f.kind \in {"Container", "Handle"} -> 1
      [] f.kind \in {"Door", "Drawer", "Room"} -> 2
      [] f.kind = "DoubleDoor" -> 5
      [] f.kind = "Dresser" ->
            1 + 2 * Len(f.drawers_factories) + 2 * Cardinality(Pairs(f))
      [] f.kind = "Wall" ->
            1 + 2 * Cardinality({i \in Pairs(f) : f.door_factories[i].kind = "Door"})
              + 5 * Cardinality({i \in Pairs(f) : f.door_factories[i].kind = "DoubleDoor"})

\* C1: the world every factory returns is a tree: one root, every other
\* body has exactly one parent connection and reaches the root, there are
\* bodies - 1 connections, and the number of bodies is the one the factory
\* announces (Door 2, DoubleDoor 5, Dresser 1 + 2k + 2m, ...).
C1_ReturnedWorldIsTree ==
    pc = "returned" =>
        /\ IsTree(world)
        /\ Len(world.bodies) = ExpectedBodies(factory)

C1_Witness ==
    /\ pc = "returned"
    /\ factory.kind = "Dresser"
    /\ Len(factory.drawers_factories) = 2
    /\ Len(factory.door_factories) = 2
    /\ Len(world.bodies) = 9
    /\ IsTree(world)

(* ===================== the container region (C2 - C4) ================== *)
MinScale(scale) == Min({scale.x, scale.y, scale.z})

ValidContainer(f) ==
    /\ f.kind = "Container"
    /\ 0 < f.wall_thickness
    /\ f.wall_thickness < MinScale(f.scale)

ScaleBox(scale) ==
    [x |-> closed(-Half(scale.x), Half(scale.x)),
     y |-> closed(-Half(scale.y), Half(scale.y)),
     z |-> closed(-Half(scale.z), Half(scale.z))]

\* C2: for a valid container the bounding box of the region is the box of
\* the scale, centred on the origin, on every axis and for every direction.
C2_BoundingBoxIsScale ==
    (pc = "returned" /\ ValidContainer(factory)) =>
        /\ event # {}
        /\ bounding_box(event) = ScaleBox(factory.scale)

C2_Witness ==
    /\ pc = "returned"
    /\ ValidContainer(factory)
    /\ factory.direction = "NEGATIVE_Z"
    /\ factory.scale = Scale(4, 6, 4)
    /\ bounding_box(event).y = closed(-3, 3)

AxisOf(d) ==
    CASE d \in {"X", "NEGATIVE_X"} -> 1
      [] d \in {"Y", "NEGATIVE_Y"} -> 2
      [] d \in {"Z", "NEGATIVE_Z"} -> 3

SignOf(d) == IF d \in {"X", "Y", "Z"} THEN 1 ELSE -1

Extent(scale, a) == CASE a = 1 -> scale.x [] a = 2 -> scale.y [] a = 3 -> scale.z

\* index of the cell of the outer face on side d
FaceIndex(scale, d) == SignOf(d) * Extent(scale, AxisOf(d))

OuterCells(scale) == ((-scale.x)..scale.x) \X ((-scale.y)..scale.y) \X ((-scale.z)..scale.z)

Face(scale, d) == {c \in OuterCells(scale) : c[AxisOf(d)] = FaceIndex(scale, d)}

\* the cells whose coordinates across the axis of d lie in the closed cavity
InCavityCrossSection(f, d, c) ==
    \A a \in {1, 2, 3} \ {AxisOf(d)} :
        /\ -(Extent(f.scale, a) - f.wall_thickness) <= c[a]
        /\ c[a] <= Extent(f.scale, a) - f.wall_thickness

\* the cells from the centre plane to the outer face on side d
TowardsFace(f, d, c) ==
    /\ 0 <= SignOf(d) * c[AxisOf(d)]
    /\ SignOf(d) * c[AxisOf(d)] <= Extent(f.scale, AxisOf(d))

\* C3: the selected face is open over exactly the cross-section of the
\* cavity, the cavity reaches that face, and each of the other five faces
\* is covered by the region.
C3_OpenOnSelectedFaceOnly ==
    (pc = "returned" /\ ValidContainer(factory)) =>
        LET d == factory.direction
        IN  /\ event \cap Face(factory.scale, d) =
                  {c \in Face(factory.scale, d) : ~InCavityCrossSection(factory, d, c)}
            /\ \A c \in OuterCells(factory.scale) :
                  (InCavityCrossSection(factory, d, c) /\ TowardsFace(factory, d, c))
                      => c \notin event
            /\ \A e \in Directions \ {d} : Face(factory.scale, e) \subseteq event

C3_Witness ==
    /\ pc = "returned"
    /\ ValidContainer(factory)
    /\ factory.direction = "NEGATIVE_Y"
    /\ factory.scale = Scale(6, 6, 4)
    /\ factory.wall_thickness = 2
    /\ <<0, -6, 0>> \notin event
    /\ <<0, 6, 0>> \in event

OuterVolume(f) == f.scale.x * f.scale.y * f.scale.z

CavityVolume(f) ==
    (f.scale.x - f.wall_thickness) * (f.scale.y - f.wall_thickness)
        * (f.scale.z - f.wall_thickness)

\* the slab from the cavity to the outer face: half a wall thickness deep
ExtensionVolume(f) ==
    LET others == {1, 2, 3} \ {AxisOf(f.direction)}
        a == Min(others)
        b == Max(others)
    IN  Half(f.wall_thickness) * (Extent(f.scale, a) - f.wall_thickness)
            * (Extent(f.scale, b) - f.wall_thickness)

\* C4 (as stated): volume = outer - cavity + extension.
C4_VolumeOuterMinusCavityPlusExtension ==
    (pc = "returned" /\ ValidContainer(factory)) =>
        Volume(event) = OuterVolume(factory) - CavityVolume(factory)
                            + ExtensionVolume(factory)

\* C4 (amended): the extension slab belongs to what is taken out of the
\* outer box: volume = outer - (cavity + extension).
C4_VolumeOuterMinusCavityAndExtension ==
    (pc = "returned" /\ ValidContainer(factory)) =>
        Volume(event) = OuterVolume(factory)
                            - (CavityVolume(factory) + ExtensionVolume(factory))

C4_Witness ==
    /\ pc = "returned"
    /\ ValidContainer(factory)
    /\ factory.scale = Scale(6, 4, 6)
    /\ factory.wall_thickness = 2
    /\ factory.direction = "Z"
    /\ Volume(event) = 144 - 32 - 8

(* ======================== the handle region (C5) ======================= *)
HandleBox(scale) ==
    [x |-> closed(0, scale.x),
     y |-> closed(-Half(scale.y), Half(scale.y)),
     z |-> closed(-Half(scale.z), Half(scale.z))]

Within(inner, outer) ==
    \A a \in {"x", "y", "z"} : outer[a].lo <= inner[a].lo /\ inner[a].hi <= outer[a].hi

HandleRegionOk ==
    /\ event # {}
    /\ Within(bounding_box(event), HandleBox(factory.scale))

\* C5 (as stated): for any thickness the handle region is not empty and its
\* bounding box stays inside [0, x] x [-y/2, y/2] x [-z/2, z/2].
C5_HandleNeverEmpty ==
    (pc = "returned" /\ factory.kind = "Handle") => HandleRegionOk

\* C5 (amended): the same for every thickness greater than zero.
C5_HandleNotEmptyForPositiveThickness ==
    (pc = "returned" /\ factory.kind = "Handle" /\ factory.thickness > 0)
        => HandleRegionOk

C5_Witness ==
    /\ pc = "returned"
    /\ factory.kind = "Handle"
    /\ factory.thickness = 1
    /\ factory.scale = Scale(4, 6, 2)
    /\ <<8, 0, 0>> \in event
    /\ <<0, 0, 0>> \notin event
    /\ bounding_box(event) = HandleBox(factory.scale)

(* ===================== unsupported door directions (C6) ================= *)
\* C6: a door with handle direction Z or NEGATIVE_Z fails with the
\* not-implemented error while the world is still empty and no body has been
\* constructed; with any other handle direction create() returns.
C6_DoorZFailsBeforeBuilding ==
    (pc # "idle" /\ factory.kind = "Door") =>
        IF factory.handle_direction \in {"Z", "NEGATIVE_Z"}
        THEN /\ pc = "raised"
             /\ error = "NotImplementedError"
             /\ world.bodies = <<>>
             /\ world.connections = <<>>
             /\ world.views = <<>>
             /\ next_id = 1
        ELSE /\ pc = "returned"
             /\ error = "none"

C6_Witness ==
    /\ pc = "raised"
    /\ factory.kind = "Door"
    /\ factory.handle_direction = "NEGATIVE_Z"
    /\ error = "NotImplementedError"
    /\ world = World

(* ========================= the double door (C7, C8) ==================== *)
DoubleDoorView == get_views_by_type(world, "DoubleDoor")[1]

\* handle direction of the door factory that made the door view
HandleDirectionOf(door_view) ==
    LET fs == create_door_factories(factory)
    IN  fs[CHOOSE i \in DOMAIN fs : fs[i].name = door_view.name].handle_direction

\* C7: left_door and right_door are two different Door views, left_door from
\* the door factory with handle direction Y and right_door from the one with
\* handle direction NEGATIVE_Y.
C7_LeftAndRightDoorDistinct ==
    (pc = "returned" /\ factory.kind = "DoubleDoor") =>
        /\ DoubleDoorView.left_door # DoubleDoorView.right_door
        /\ HandleDirectionOf(DoubleDoorView.left_door) = "Y"
        /\ HandleDirectionOf(DoubleDoorView.right_door) = "NEGATIVE_Y"

DoorViews == get_views_by_type(world, "Door")

Panel(door_view) == collision_in_frame(world, root(world), door_view.body)

YCells(E) == {c[2] : c \in E}

Hinge(door_view) == parent_connection(world, door_view.body)[1]

HandleY(door_view) == frame_T(world, root(world), door_view.handle.body).y

\* the hinge is on the outer edge of its panel, the handle between the hinge
\* and the middle
HingedOutside(door_view, half_width) ==
    LET hinge == Hinge(door_view).origin.y
    IN  /\ Hinge(door_view).kind = "Revolute"
        /\ \/ /\ hinge = -half_width
              /\ 2 * hinge = Min(YCells(Panel(door_view)))
              /\ hinge < HandleY(door_view) /\ HandleY(door_view) <= 0
           \/ /\ hinge = half_width
              /\ 2 * hinge = Max(YCells(Panel(door_view)))
              /\ 0 <= HandleY(door_view) /\ HandleY(door_view) < hinge

DoorPanelsSpanWidth ==
    LET left == Panel(DoorViews[1])
        right == Panel(DoorViews[2])
        half_width == Half(factory.scale.y)
    IN  /\ Len(DoorViews) = 2
        /\ \A c \in left \cap right : c[2] % 2 = 0
        /\ YCells(left \cup right) = (-factory.scale.y)..factory.scale.y
        /\ HingedOutside(DoorViews[1], half_width)
        /\ HingedOutside(DoorViews[2], half_width)
        /\ Hinge(DoorViews[1]).origin.y # Hinge(DoorViews[2]).origin.y

\* C8: the two panels of a double door of any positive scale do not overlap,
\* together span [-scale.y/2, scale.y/2], are hinged on their outer edges and
\* carry their handles towards the middle.
C8_PanelsSpanWidth ==
    (pc = "returned" /\ factory.kind = "DoubleDoor") => DoorPanelsSpanWidth

\* the claim of C8 holds for panels wider than the inset of the handle
PanelsSpanWidthWhenWide ==
    (pc = "returned" /\ factory.kind = "DoubleDoor"
        /\ one_door_scale(factory).y > HandleInset) => DoorPanelsSpanWidth

(* ============================ the pivot (C9) =========================== *)
\* Y translation of the parent connection of the handle body of a door view
HandleOffsetY(door_view) == parent_connection(world, door_view.handle.body)[1].origin.y

\* C9: the pivot keeps X and Z of the door transform and moves Y by half the
\* scale away from the handle: by -scale.y/2 for a handle at positive Y, by
\* +scale.y/2 for a handle at negative Y, by nothing for a handle at Y = 0.
C9_PivotOppositeHandle ==
    (pc = "returned" /\ args.op = "calculate_door_pivot_point") =>
        LET h == HandleOffsetY(args.door_view)
            t == args.door_transform
            pivot == ret[1]
        IN  /\ pivot.x = t.x
            /\ pivot.z = t.z
            /\ h > 0 => 2 * pivot.y = 2 * t.y - args.scale.y
            /\ h < 0 => 2 * pivot.y = 2 * t.y + args.scale.y
            /\ h = 0 => pivot.y = t.y

C9_Witness ==
    /\ pc = "returned"
    /\ args.op = "calculate_door_pivot_point"
    /\ factory.handle_direction = "NEGATIVE_Y"
    /\ HandleOffsetY(args.door_view) = -2
    /\ args.scale.y = 6
    /\ args.door_transform.y = 1
    /\ ret[1].y = 4

(* ========================= the swing range (C10) ======================= *)
AddedDoorView == CHOOSE v \in Range(world.views) : v.type = "Door" /\ v.name = <<"added">>

SwingAgreesWithHandleSide ==
    LET connection == parent_connection(world, AddedDoorView.body)[1]
        dof == connection.dof[1]
    IN  /\ connection.kind = "Revolute"
        /\ connection.axis = "Z"
        /\ Len(connection.dof) = 1
        /\ IF HandleOffsetY(AddedDoorView) > 0
           THEN dof.lower = -1 /\ dof.upper = 0
           ELSE dof.lower = 0 /\ dof.upper = 1

\* C10: a door attached by add_door_to_world turns about Z, within
\* [-pi/2, 0] when the Y offset of its handle is positive and within
\* [0, pi/2] otherwise (limits in quarter turns).
C10_SwingAgreesWithHandleSide ==
    (pc = "returned" /\ args.op = "add_door_to_world") => SwingAgreesWithHandleSide

\* the swing range agrees with the handle side for handle direction X and for
\* Y or NEGATIVE_Y panels wider than the inset of the handle
SwingAgreesWhenWide ==
    (pc = "returned" /\ args.op = "add_door_to_world"
        /\ \/ args.door_factory.handle_direction = "X"
           \/ /\ args.door_factory.handle_direction \in {"Y", "NEGATIVE_Y"}
              /\ args.door_factory.scale.y > HandleInset)
        => SwingAgreesWithHandleSide

(* ================== the shell and the movable parts (C11) ============== *)
DresserReturned == pc = "returned" /\ factory.kind = "Dresser"

\* the unit cubes of a region
Solid(E) == {c \in E : c[1] % 2 = 1 /\ c[2] % 2 = 1 /\ c[3] % 2 = 1}

Shell == collision_in_frame(world, root(world), root(world))

Parts ==
    UNION {collision_in_frame(world, root(world), b.id) :
              b \in {e \in Range(world.bodies) : e.id # root(world)}}

\* C11: in the world a DresserFactory returns, the region of the dresser root
\* body and the regions of all other bodies, expressed in the dresser's frame,
\* have no unit cube in common (touching faces are not counted as overlap).
C11_ShellNeverOverlapsParts == DresserReturned => Solid(Shell) \cap Solid(Parts) = {}

\* the shell is disjoint from the parts when at most two drawers are stacked
\* inside the cavity and the doors hang in front of it
ShellDisjointWhenFitted ==
    (DresserReturned /\ factory \in DresserFactories
        /\ Len(factory.drawers_factories) <= 2
        /\ \A i \in DOMAIN factory.door_factories :
               factory.door_factories[i].handle_direction = "Y")
        => Solid(Shell) \cap Solid(Parts) = {}

(* =================== drawers and transforms differ (C12) =============== *)
DresserCalled == pc # "idle" /\ factory.kind = "Dresser"

DrawerCountMismatch ==
    Len(factory.drawers_factories) # Len(factory.drawer_transforms)

\* C12: a DresserFactory whose number of drawer factories differs from its
\* number of drawer transforms fails with the assertion error, no world is
\* returned, and at the failure no body, connection, DOF or view exists.
C12_MismatchFailsBeforeBuilding ==
    (DresserCalled /\ DrawerCountMismatch)
        => /\ pc = "raised"
           /\ error = "AssertionError"
           /\ world = World
           /\ next_id = 1

\* a mismatching dresser with doors, one of them of an unsupported direction
C12_Witness ==
    /\ DresserCalled
    /\ DrawerCountMismatch
    /\ pc = "raised"
    /\ Len(factory.drawers_factories) > 0
    /\ \E i \in DOMAIN factory.door_factories :
           factory.door_factories[i].handle_direction = "Z"

(* =============== unsupported doors hosted by a wall (C13) ============== *)
WallCalled == pc # "idle" /\ factory.kind = "Wall"

UnsupportedDoor(door_factory) ==
    /\ door_factory.kind = "Door"
    /\ door_factory.handle_direction \notin {"Y", "NEGATIVE_Y"}

FirstEntryUnsupported ==
    /\ Len(factory.door_factories) >= 1
    /\ UnsupportedDoor(factory.door_factories[1])

\* C13: a WallFactory whose first hosted entry is a single door of a handle
\* direction other than Y or NEGATIVE_Y fails, and at the failure nothing but
\* the wall body itself has been constructed: no door body, no handle body and
\* no body of a temporary world (next_id counts the constructed bodies).
C13_UnsupportedDoorFailsBeforeBuilding ==
    (WallCalled /\ FirstEntryUnsupported) => (pc = "raised" /\ next_id = 2)

\* a wall hosting a single door of an unsupported direction never returns
UnsupportedDoorFails ==
    (WallCalled /\ \E i \in DOMAIN factory.door_factories :
                       UnsupportedDoor(factory.door_factories[i]))
        => pc = "raised"

(* ===================== create() called twice (C14) ===================== *)
NameOf(w, id) == BodyOf(w, id).name

BodyShape(w) ==
    [i \in DOMAIN w.bodies |-> [w.bodies[i] EXCEPT !.id = 0]]

ConnectionShape(w) ==
    [i \in DOMAIN w.connections |->
        LET c == w.connections[i]
        IN  [kind |-> c.kind, parent |-> NameOf(w, c.parent),
             child |-> NameOf(w, c.child), origin |-> c.origin, axis |-> c.axis,
             dof |-> [j \in DOMAIN c.dof |-> [c.dof[j] EXCEPT !.id = 0]]]]

DofShape(w) == [i \in DOMAIN w.dofs |-> [w.dofs[i] EXCEPT !.id = 0]]

BodyViewShape(w, v) == [v EXCEPT !.body = NameOf(w, @)]

DoorViewShape(w, v) ==
    [v EXCEPT !.body = NameOf(w, @), !.handle = BodyViewShape(w, @)]

DrawerViewShape(w, v) ==
    [v EXCEPT !.container = BodyViewShape(w, @), !.handle = BodyViewShape(w, @)]

OneViewShape(w, v) ==
    CASE v.type \in {"Container", "Handle", "Wall"} -> BodyViewShape(w, v)
      [] v.type = "Door" -> DoorViewShape(w, v)
      [] v.type = "DoubleDoor" ->
             [v EXCEPT !.body = NameOf(w, @),
                       !.left_door = DoorViewShape(w, @),
                       !.right_door = DoorViewShape(w, @)]
      [] v.type = "Drawer" -> DrawerViewShape(w, v)
      [] v.type = "Dresser" ->
             [v EXCEPT !.container = BodyViewShape(w, @),
                       !.drawers = [j \in DOMAIN @ |-> DrawerViewShape(w, @[j])],
                       !.doors = [j \in DOMAIN @ |-> DoorViewShape(w, @[j])]]
      [] v.type = "Floor" -> [v EXCEPT !.region = NameOf(w, @)]
      [] v.type = "Room" -> [v EXCEPT !.floor = [@ EXCEPT !.region = NameOf(w, @)]]

ViewShape(w) == [i \in DOMAIN w.views |-> OneViewShape(w, w.views[i])]

\* a world up to the identity of its objects
Structure(w) ==
    [bodies |-> BodyShape(w), connections |-> ConnectionShape(w),
     dofs |-> DofShape(w), views |-> ViewShape(w), name |-> w.name]

DofIds(w) ==
    {d.id : d \in Range(w.dofs)}
        \cup UNION {{d.id : d \in Range(c.dof)} : c \in Range(w.connections)}

CalledTwice == pc = "returned" /\ args.op = "create"

ReturnsAddedDoor ==
    /\ Len(ret) = 1
    /\ ret[1] = AddedDoorView
    /\ parent_connection(world, ret[1].body) # <<>>
    /\ parent_connection(world, ret[1].body)[1].kind = "Revolute"

\* C15: add_door_to_world returns the Door view of the door it has just merged
\* into the parent world, the one whose body is the child of the revolute
\* connection it created, also when the parent already holds a Door view.
C15_ReturnsAddedDoor ==
    (pc = "returned" /\ args.op = "add_door_to_world") => ReturnsAddedDoor

\* the door just merged is returned when the parent held no Door view before
ReturnsAddedDoorWhenFirst ==
    (pc = "returned" /\ args.op = "add_door_to_world" /\ factory.kind = "Room")
        => ReturnsAddedDoor

(* ====================== the handle of a drawer (C16) =================== *)
DrawerView == get_views_by_type(world, "Drawer")[1]

\* half the extent of the container along its opening axis, signed
OnOpeningAxis(container_factory) ==
    LET a == AxisOf(container_factory.direction)
        h == SignOf(container_factory.direction)
                 * Half(Extent(container_factory.scale, a))
    IN  from_xyz_rpy(IF a = 1 THEN h ELSE 0, IF a = 2 THEN h ELSE 0,
                     IF a = 3 THEN h ELSE 0, 0)

HandleOnOpeningAxis ==
    LET connections == ParentConnections(world, DrawerView.handle.body)
    IN  /\ Cardinality(connections) = 1
        /\ \A i \in connections :
              /\ world.connections[i].kind = "Fixed"
              /\ world.connections[i].parent = DrawerView.container.body
              /\ world.connections[i].origin = OnOpeningAxis(factory.container_factory)

\* C16: in the world of a DrawerFactory the handle hangs on the container by
\* a fixed connection whose translation is half the container's extent along
\* the opening axis, on the side container_factory.direction selects, and zero
\* on the other two axes.
C16_HandleOnOpeningAxis ==
    (pc = "returned" /\ factory.kind = "Drawer") => HandleOnOpeningAxis

\* the handle is on the opening axis of a container that opens towards X
HandleOnOpeningAxisForX ==
    (pc = "returned" /\ factory.kind = "Drawer"
        /\ factory.container_factory.direction = "X")
        => HandleOnOpeningAxis

(* ================== the joints of a dresser (C17) ====================== *)
ChildConnections(w, kind) ==
    {i \in DOMAIN w.connections :
        w.connections[i].parent = root(w) /\ w.connections[i].kind = kind}

\* the prismatic connection of drawer i of the factory
DrawerJointOk(i) ==
    LET drawer_factory == factory.drawers_factories[i]
        joints == {j \in ChildConnections(world, "Prismatic") :
                      NameOf(world, world.connections[j].child)
                          = drawer_factory.container_factory.name}
    IN  /\ Cardinality(joints) = 1
        /\ \A j \in joints :
              /\ world.connections[j].axis = "X"
              /\ Len(world.connections[j].dof) = 1
              /\ world.connections[j].dof[1].lower = 0
              \* 0.75 * scale.x, in quarters of a lattice unit
              /\ world.connections[j].dof[1].upper
                     = 3 * drawer_factory.container_factory.scale.x
              /\ world.connections[j].dof[1].unit = "lattice/4"

ReferencesOf(w, dof) ==
    {j \in DOMAIN w.connections : dof \in Range(w.connections[j].dof)}

DresserJointsOk ==
    LET k == Len(factory.drawers_factories)
        m == MinOf(Len(factory.door_factories), Len(factory.door_transforms))
    IN  /\ Cardinality(ChildConnections(world, "Prismatic")) = k
        /\ \A i \in 1..k : DrawerJointOk(i)
        /\ Cardinality(ChildConnections(world, "Revolute")) = m
        /\ \A j \in ChildConnections(world, "Revolute") :
              world.connections[j].axis = "Z" /\ Len(world.connections[j].dof) = 1
        /\ \A j \in DOMAIN world.connections :
              world.connections[j].kind = "Fixed" => world.connections[j].dof = <<>>
        /\ \A j \in DOMAIN world.connections :
              Range(world.connections[j].dof) \subseteq Range(world.dofs)
        /\ \A d \in Range(world.dofs) : Cardinality(ReferencesOf(world, d)) = 1

\* C17: in the world of a DresserFactory with k drawers and m doors the root
\* has exactly k prismatic child connections, one per drawer, along X with DOF
\* limits [0, 0.75 * scale.x of that drawer's container], and exactly m
\* revolute child connections about Z; a fixed connection has no DOF and every
\* DOF of the world is referenced by exactly one connection.
C17_DresserJoints == DresserReturned => DresserJointsOk

\* a dresser with two drawers of different depth and two doors
C17_Witness ==
    /\ DresserReturned
    /\ Len(factory.drawers_factories) = 2
    /\ factory.drawers_factories[1].container_factory.scale.x
           # factory.drawers_factories[2].container_factory.scale.x
    /\ Len(factory.door_factories) = 2
    /\ Len(world.dofs) = 4

(* ================== doors cut out of a wall (C18) ====================== *)
WallReturned == pc = "returned" /\ factory.kind = "Wall"

\* placement at which entry i is cut out of the wall event
CutPlacement(i) ==
    LET door_factory == factory.door_factories[i]
        door_world == EntryWay_create(door_factory, 1).world
    IN  get_door_transforms(door_world, get_views_by_type(door_world, "Door"),
                            door_factory, factory.door_transforms[i]).value

\* placements at which entry i hangs on the wall body in the returned world
AttachPlacements(i) ==
    {world.connections[j].origin :
        j \in {l \in DOMAIN world.connections :
                  /\ world.connections[l].parent = root(world)
                  /\ NameOf(world, world.connections[l].child)
                         = factory.door_factories[i].name}}

\* yz-projection of the door panels of the returned world, at rest
DoorSilhouette ==
    UNION {marginal_yz(collision_in_frame(world, root(world), v.body)) :
              v \in {u \in Range(world.views) : u.type = "Door"}}

UncutPanel == as_composite_set(create_wall_event(factory))

WallRegion == BodyOf(world, root(world)).collision

\* C18: in the world of a WallFactory hosting Y / NEGATIVE_Y single doors and
\* double doors, every entry is attached at the placement at which it was cut
\* out, and the region of the wall body is the uncut panel
\* [-x/2, x/2] x [-y/2, y/2] x [0, z] without what lies behind the
\* yz-projection of a hosted door panel (regions compared by unit cubes).
C18_CutWhereAttached ==
    WallReturned =>
        /\ \A i \in DOMAIN factory.door_factories :
               AttachPlacements(i) = {CutPlacement(i)}
        /\ LET silhouette == DoorSilhouette
           IN  Solid(WallRegion)
                   = {c \in Solid(UncutPanel) : <<c[2], c[3]>> \notin silhouette}

\* a wall with a single door whose pivot is off its transform and a double door
C18_Witness ==
    /\ WallReturned
    /\ \E i, j \in DOMAIN factory.door_factories :
          /\ factory.door_factories[i].kind = "Door"
          /\ CutPlacement(i) # factory.door_transforms[i]
          /\ factory.door_factories[j].kind = "DoubleDoor"
    /\ Solid(WallRegion) # Solid(UncutPanel)
    /\ Solid(WallRegion) # {}

(* ================== the interior only grows (C19) ====================== *)
\* region of the container body as the container factory produced it
ContainerRegion == as_shapes(create_container_event(factory.container_factory))

ChildFootprint ==
    UNION {marginal_yz(collision_in_frame(world, root(world), b.id)) :
              b \in {e \in Range(world.bodies) : e.id # root(world)}}

\* the cells of a footprint all of whose neighbours belong to it
Interior(F) ==
    {f \in F : \A j \in (f[1] - 1)..(f[1] + 1), k \in (f[2] - 1)..(f[2] + 1) :
                   <<j, k>> \in F}

InteriorOnlyAdds ==
    LET final == Shell
        original == ContainerRegion
        footprint == ChildFootprint
        covered == Interior(footprint)
    IN  /\ original \subseteq final
        /\ bounding_box(final) = bounding_box(original)
        /\ {c \in final : <<c[2], c[3]>> \in covered}
               = {c \in original : <<c[2], c[3]>> \in covered}
        /\ {c \in Solid(final) : <<c[2], c[3]>> \in footprint}
               = {c \in Solid(original) : <<c[2], c[3]>> \in footprint}

====
